---- MODULE Spec2Model ----
(***************************************************************************)
(* CEX wallet tracker: the reconnecting log-stream client                  *)
(* (src/utils/websocket.ts) driven by startListener/shutdown               *)
(* (src/index.ts), and the detection pipeline processLogEvent              *)
(* (src/index.ts) with fetchAndParseTransaction (src/utils/txParser.ts)    *)
(* and performScrutinyCheck (src/utils/scrutinyCheck.ts).                  *)
(*                                                                         *)
(* Every handler is one action.  An async function is cut at its awaits:   *)
(* the code between two awaits runs without interleaving on the Node event *)
(* loop and is one action.                                                 *)
(***************************************************************************)
EXTENDS Integers, Sequences, FiniteSets, TLC

(***************************************************************************)
(* Part 1.  WebSocketListener, startListener, shutdown                     *)
(***************************************************************************)

VARIABLES
  ws,                \* this.ws: "null", or the readyState of the transport it references
  subscriptionId,    \* this.subscriptionId
  reconnectAttempts, \* this.reconnectAttempts
  isManualClose,     \* this.isManualClose
  timers,            \* delays (ms) of the pending setTimeout callbacks of reconnect()
  startPromise,      \* the promise startListener awaits: "none", "pending", "resolved", "rejected"
  exitCode,          \* Running, or the code given to process.exit
  delivered,         \* number of onLog invocations so far (capped at MaxDelivered)
  serverSubId,       \* history: the response to the current transport's logsSubscribe, as received
  failedAttempts,    \* history: reconnect attempts that ended without 'open' since the last 'open'
  effects,           \* history: what the last handler did
  inbound            \* history: the frame the last handler was given (NoFrame if none)

wsVars == <<ws, subscriptionId, reconnectAttempts, isManualClose, timers, startPromise,
            exitCode, delivered, serverSubId, failedAttempts, effects, inbound>>

VARIABLES
  pc,          \* processLogEvent: "idle", awaiting "fetch" / "refetch" / "scrutiny", "done";
               \* "direct" when performScrutinyCheck is called on its own
  signature,   \* processLogEvent's signature argument
  trigTx,      \* the transaction the RPC node holds for that signature
  txAnalysis,  \* const txAnalysis (its accountKeys), once fetchAndParseTransaction returned one
  wi,          \* position of the for loop in config.cexWallets (0 outside the loop)
  local,       \* the loop body's cexAccountIndex, outgoingAmount, matchedRange, recipientAddress
  events,      \* the DetectionEvents handed to handleDetection, in order
  txFetches,   \* getParsedTransaction calls processLogEvent made for its signature
  conn,        \* the connection: the live RPC node, or a scripted one (direct call)
  priorExists, \* whether recipients have a transaction older than the triggering one
  scrPc,       \* performScrutinyCheck: "idle", awaiting "lookup" / "fetchPrev", "returned"
  scrArgs,     \* its recipientAddress, cexAddress, cexLabel
  prevSig,     \* previousTx.signature
  scrResult,   \* the ScrutinyResult it returned
  scrFetches,  \* getParsedTransaction calls it made
  scrTrace,    \* history: how new PublicKey, the lookup and the fetch ended
  rpcFailed,   \* history: some RPC call of this run returned null, no meta, or threw
  fetchTrace,  \* history: how processLogEvent's getParsedTransaction calls ended
  emitted,     \* history: the DetectionEvents this invocation handed to handleDetection
  chain,       \* the transaction the RPC node holds under each notified signature
  parked       \* the other in-flight invocation of processLogEvent, waiting at its await

detVars == <<pc, signature, trigTx, txAnalysis, wi, local, events, txFetches, conn,
             priorExists, scrPc, scrArgs, prevSig, scrResult, scrFetches, scrTrace,
             rpcFailed, fetchTrace, emitted, chain, parked>>

VARIABLES
  cfgPc,       \* loadConfig: "start", "loaded" (it returned), "failed" (it threw)
  envRange,    \* process.env.CEX_1_RANGE, as its items (split at ',') and their parts (split at '-')
  cfgRanges    \* the ranges of the wallet loadConfig returned

cfgVars == <<cfgPc, envRange, cfgRanges>>

vars == <<wsVars, detVars, cfgVars>>

\* private maxReconnectAttempts = 10
maxReconnectAttempts == 10
\* private reconnectDelay = 3000
reconnectDelay == 3000

\* Identifiers the server may assign to a subscription: 0 .. MaxSubId.
MaxSubId == 2
\* onLog invocations that are counted.
MaxDelivered == 2

\* exitCode while process.exit has not been called.
Running == -1

NullId == [kind |-> "null", n |-> 0]
NumberId(n) == [kind |-> "number", n |-> n]
\* A logsNotification's result object, when handleMessage stores it as the identifier.
PayloadId == [kind |-> "object", n |-> 0]

\* Inbound frames.  "response" is the reply to logsSubscribe ({id:1, result:n});
\* "notification" is {method:'logsNotification', result:{value:{signature,logs}}}, the
\* shape of the LogsNotification interface; "notificationNoResult" is a logsNotification
\* without a top-level result; "notificationNoValue" is a logsNotification whose result
\* is an object without value; "invalid" is not JSON.
Messages ==
  {[kind |-> "invalid", n |-> 0], [kind |-> "notification", n |-> 0],
   [kind |-> "notificationNoResult", n |-> 0], [kind |-> "notificationNoValue", n |-> 0]}
  \cup {[kind |-> "response", n |-> i] : i \in 0..MaxSubId}

NoFrame == [kind |-> "none", n |-> 0]

RECURSIVE Pow2(_)
\* Math.pow(2, n) for a natural n
Pow2(n) == IF n = 0 THEN 1 ELSE 2 * Pow2(n - 1)

\* Mutant of BackoffDelay: a linear backoff.
BackoffDelayLinear(attempts) == reconnectDelay * attempts
\* const delay = this.reconnectDelay * Math.pow(2, this.reconnectAttempts - 1)
BackoffDelay(attempts) == reconnectDelay * Pow2(attempts - 1)

\* if (this.reconnectAttempts >= this.maxReconnectAttempts) return
GivesUp(attempts) == attempts >= maxReconnectAttempts

\* Mutant of OnClose: the 'error' handler calls reconnect() too, so a transport that
\* fails schedules two reconnects.
OnCloseAndOnError(eff) ==
  IF isManualClose
    THEN /\ UNCHANGED <<reconnectAttempts, timers>>
         /\ effects' = eff
    ELSE IF GivesUp(reconnectAttempts)
      THEN /\ UNCHANGED <<reconnectAttempts, timers>>
           /\ effects' = eff \cup {"giveUp"}
      ELSE /\ reconnectAttempts' = reconnectAttempts + 2
           /\ timers' = Append(Append(timers, BackoffDelay(reconnectAttempts + 1)),
                               BackoffDelay(reconnectAttempts + 2))
           /\ effects' = eff \cup {"scheduled"}
\* The 'close' handler of a transport: if (!this.isManualClose) this.reconnect().
\* reconnect() gives up, or counts the attempt and arms a timer for connect().
\* `eff` are the other effects of the handler this runs in.
OnClose(eff) ==
  IF isManualClose
    THEN /\ UNCHANGED <<reconnectAttempts, timers>>
         /\ effects' = eff
    ELSE IF GivesUp(reconnectAttempts)
      THEN /\ UNCHANGED <<reconnectAttempts, timers>>
           /\ effects' = eff \cup {"giveUp"}
      ELSE /\ reconnectAttempts' = reconnectAttempts + 1
           /\ timers' = Append(timers, BackoffDelay(reconnectAttempts + 1))
           /\ effects' = eff \cup {"scheduled"}

\* startListener: wsListener.connect() creates the first transport and awaits the promise.
StartConnect ==
  /\ exitCode = Running
  /\ UNCHANGED detVars
  /\ UNCHANGED cfgVars
  /\ inbound' = NoFrame
  /\ startPromise = "none"
  /\ ~isManualClose
  /\ ws' = "CONNECTING"
  /\ startPromise' = "pending"
  /\ serverSubId' = NullId
  /\ effects' = {"newTransport"}
  /\ UNCHANGED <<subscriptionId, reconnectAttempts, isManualClose, timers, exitCode,
                 delivered, failedAttempts>>

\* The 'open' handler: reset the counter, subscribe() (the transport is OPEN, so the
\* request is sent), resolve().
Open ==
  /\ exitCode = Running
  /\ UNCHANGED detVars
  /\ UNCHANGED cfgVars
  /\ inbound' = NoFrame
  /\ ws = "CONNECTING"
  /\ ws' = "OPEN"
  /\ reconnectAttempts' = 0
  /\ failedAttempts' = 0
  /\ startPromise' = IF startPromise = "pending" THEN "resolved" ELSE startPromise
  /\ effects' = {"subscribeSent"}
  /\ UNCHANGED <<subscriptionId, isManualClose, timers, exitCode, delivered, serverSubId>>

\* A connection attempt fails: the transport emits 'error' (reject) and then 'close'.
\* The rejection of the first connect() reaches startListener's catch: process.exit(1).
\* The rejection of a reconnect's connect() is logged by the timer callback's catch.
ConnectFail ==
  /\ exitCode = Running
  /\ UNCHANGED detVars
  /\ UNCHANGED cfgVars
  /\ inbound' = NoFrame
  /\ ws = "CONNECTING"
  /\ ws' = "CLOSED"
  /\ startPromise' = IF startPromise = "pending" THEN "rejected" ELSE startPromise
  /\ exitCode' = IF startPromise = "pending" THEN 1 ELSE exitCode
  /\ failedAttempts' = IF startPromise = "pending" THEN failedAttempts ELSE failedAttempts + 1
  /\ OnClose({})
  /\ UNCHANGED <<subscriptionId, isManualClose, delivered, serverSubId>>

\* An open transport closes (peer close, or a read error: 'error' then 'close'; the
\* promise of its connect() is already settled, so reject() changes nothing).
Drop ==
  /\ exitCode = Running
  /\ UNCHANGED detVars
  /\ UNCHANGED cfgVars
  /\ inbound' = NoFrame
  /\ ws = "OPEN"
  /\ ws' = "CLOSED"
  /\ OnClose({})
  /\ UNCHANGED <<subscriptionId, isManualClose, startPromise, exitCode, delivered,
                 serverSubId, failedAttempts>>

\* The setTimeout callback of reconnect(): this.connect() creates a new transport.
TimerFire ==
  /\ exitCode = Running
  /\ UNCHANGED detVars
  /\ UNCHANGED cfgVars
  /\ inbound' = NoFrame
  /\ timers # <<>>
  /\ timers' = Tail(timers)
  /\ ws' = "CONNECTING"
  /\ serverSubId' = NullId
  /\ effects' = {"newTransport"}
  /\ UNCHANGED <<subscriptionId, reconnectAttempts, isManualClose, startPromise, exitCode,
                 delivered, failedAttempts>>

\* handleMessage for a frame that JSON.parse rejects, or a logsNotification whose
\* result is missing (handleLogsNotification throws on notification.result.value):
\* the catch logs it.
HandleDropped(m) ==
  /\ m.kind \in {"invalid", "notificationNoResult"}
  /\ effects' = {}
  /\ UNCHANGED <<subscriptionId, delivered, serverSubId>>

\* handleMessage for the reply to logsSubscribe: stored when message.result is truthy
\* and no identifier is recorded yet.  The server replies once per request.
HandleResponse(m) ==
  /\ m.kind = "response"
  /\ serverSubId = NullId
  /\ serverSubId' = NumberId(m.n)
  /\ subscriptionId' =
       IF m.n # 0 /\ subscriptionId = NullId THEN NumberId(m.n) ELSE subscriptionId
  /\ effects' = {}
  /\ UNCHANGED delivered

\* handleMessage for a logsNotification carrying result.value: message.result is
\* truthy, so it is stored as the identifier when none is recorded; otherwise
\* handleLogsNotification invokes onLog.  The server notifies after it has replied.
HandleNotification(m) ==
  /\ m.kind = "notification"
  /\ serverSubId # NullId
  /\ delivered < MaxDelivered
  /\ IF subscriptionId = NullId
       THEN /\ subscriptionId' = PayloadId
            /\ effects' = {}
            /\ UNCHANGED delivered
       ELSE /\ delivered' = delivered + 1
            /\ effects' = {"onLog"}
            /\ UNCHANGED subscriptionId
  /\ UNCHANGED serverSubId

\* handleMessage for a logsNotification whose result has no value: message.result is
\* truthy, so it is stored as the identifier when none is recorded; otherwise
\* handleLogsNotification throws on destructuring result.value and the catch logs it.
HandleNoValue(m) ==
  /\ m.kind = "notificationNoValue"
  /\ subscriptionId' = IF subscriptionId = NullId THEN PayloadId ELSE subscriptionId
  /\ effects' = {}
  /\ UNCHANGED <<delivered, serverSubId>>

\* The 'message' handler of the open transport.
Message ==
  /\ exitCode = Running
  /\ UNCHANGED detVars
  /\ UNCHANGED cfgVars
  /\ ws = "OPEN"
  /\ \E m \in Messages :
       /\ inbound' = m
       /\ \/ HandleDropped(m)
          \/ HandleResponse(m)
          \/ HandleNoValue(m)
          \/ HandleNotification(m)
  /\ UNCHANGED <<ws, reconnectAttempts, isManualClose, timers, startPromise, exitCode,
                 failedAttempts>>

\* close(): set the flag, close the transport and forget it.  The closed transport's
\* 'close' handler finds isManualClose set and does nothing.  Closing a transport that
\* is still connecting aborts its handshake with an 'error', which rejects the promise
\* of its connect(); for the first connect() that is startListener's catch.
Close ==
  /\ exitCode = Running
  /\ UNCHANGED detVars
  /\ UNCHANGED cfgVars
  /\ inbound' = NoFrame
  /\ startPromise # "none"
  /\ ~isManualClose
  /\ isManualClose' = TRUE
  /\ ws' = "null"
  /\ startPromise' = IF ws = "CONNECTING" /\ startPromise = "pending"
                       THEN "rejected" ELSE startPromise
  /\ exitCode' = IF ws = "CONNECTING" /\ startPromise = "pending" THEN 1 ELSE exitCode
  /\ effects' = {"close"}
  /\ UNCHANGED <<subscriptionId, reconnectAttempts, timers, delivered, serverSubId,
                 failedAttempts>>

\* shutdown(): wsListener.close(), then process.exit(0).
Shutdown ==
  /\ exitCode = Running
  /\ UNCHANGED detVars
  /\ UNCHANGED cfgVars
  /\ inbound' = NoFrame
  /\ startPromise # "none"
  /\ ~isManualClose
  /\ isManualClose' = TRUE
  /\ ws' = "null"
  /\ exitCode' = 0
  /\ effects' = {"close"}
  /\ UNCHANGED <<subscriptionId, reconnectAttempts, timers, startPromise, delivered,
                 serverSubId, failedAttempts>>

InitWS ==
  /\ ws = "null"
  /\ subscriptionId = NullId
  /\ reconnectAttempts = 0
  /\ isManualClose = FALSE
  /\ timers = <<>>
  /\ startPromise = "none"
  /\ exitCode = Running
  /\ delivered = 0
  /\ serverSubId = NullId
  /\ failedAttempts = 0
  /\ effects = {}
  /\ inbound = NoFrame

NextWS ==
  \/ StartConnect
  \/ Open
  \/ ConnectFail
  \/ Drop
  \/ TimerFire
  \/ Message
  \/ Close
  \/ Shutdown


(***************************************************************************)
(* Part 2.  Transactions, ranges, performScrutinyCheck                     *)
(*                                                                         *)
(* Balances are integers.  The model's balance unit is 1000 lamports, so   *)
(* one SOL is 10^6 units and every amount of the model stays inside TLC's  *)
(* integers.  An amount in SOL (balance difference / LAMPORTS_PER_SOL) is  *)
(* kept as its numerator, the balance difference: comparisons with a       *)
(* number of SOL multiply that number by LAMPORTS_PER_SOL instead.         *)
(***************************************************************************)

LAMPORTS_PER_SOL == 1000 * 1000

\* Accounts: two configured wallets, and two other accounts.
Addr == {"W1", "W2", "R", "T"}
\* A recipient string that new PublicKey() rejects.
BadAddr == "not-base58"

\* config.cexWallets, in declaration order (CEX_1_*, CEX_2_*), ranges in SOL.
cexWallets ==
  << [label |-> "OKX", address |-> "W1",
      ranges |-> << [min |-> 13, max |-> 15], [min |-> 14, max |-> 26] >>],
     [label |-> "KUCOIN", address |-> "W2",
      ranges |-> << [min |-> 10, max |-> 20] >>] >>

\* Longest account list of a transaction.
MaxAccounts == 3
\* The fee a payer loses on top of a transfer, in balance units (5000 lamports).
FeeUnits == 5
\* The transferred amount of the model's transactions: 14 SOL.
Transfer == 14 * LAMPORTS_PER_SOL
\* Every account's balance before a transaction.
BaseBalance == 100 * LAMPORTS_PER_SOL
\* Balance changes of an account in one transaction.
Deltas == {0 - (Transfer + FeeUnits), 0 - Transfer, 0, Transfer}

\* Account lists: sequences of distinct addresses.
AccountLists ==
  UNION {{k \in [1..n -> Addr] : \A i, j \in 1..n : i # j => k[i] # k[j]} : n \in 2..MaxAccounts}

\* The parsed transactions an RPC node may hold.
TxSet ==
  UNION {{[accountKeys |-> k,
           preBalances |-> [i \in 1..Len(k) |-> BaseBalance],
           postBalances |-> [i \in 1..Len(k) |-> BaseBalance + d[i]]] :
          d \in [1..Len(k) -> Deltas]} : k \in AccountLists}

NoTx == [accountKeys |-> <<>>, preBalances |-> <<>>, postBalances |-> <<>>]

\* Outcomes of connection.getParsedTransaction: the transaction with its meta, the
\* transaction without meta, null, or a rejected promise.
FetchKinds == {"ok", "nometa", "null", "throw"}

Abs(x) == IF x < 0 THEN 0 - x ELSE x
Min(S) == CHOOSE i \in S : \A j \in S : i <= j

\* Array.prototype.indexOf, 1-based; 0 stands for -1.
IndexOf(seq, x) ==
  IF \E i \in 1..Len(seq) : seq[i] = x
    THEN Min({i \in 1..Len(seq) : seq[i] = x})
    ELSE 0

\* amount >= range.min && amount <= range.max, the amount given as its numerator
InRange(amount, range) ==
  /\ amount >= range.min * LAMPORTS_PER_SOL
  /\ amount <= range.max * LAMPORTS_PER_SOL

\* ranges.some(...)
isAmountInRange(amount, ranges) == \E i \in 1..Len(ranges) : InRange(amount, ranges[i])

NoRange == [min |-> 0 - 1, max |-> 0 - 1]
\* Mutant of getMatchingRange: the last range holding the amount.
getMatchingRangeLast(amount, ranges) ==
  IF isAmountInRange(amount, ranges)
    THEN ranges[CHOOSE i \in 1..Len(ranges) :
                  /\ InRange(amount, ranges[i])
                  /\ \A j \in 1..Len(ranges) : InRange(amount, ranges[j]) => j <= i]
    ELSE NoRange
\* ranges.find(...) || null
getMatchingRange(amount, ranges) ==
  IF isAmountInRange(amount, ranges)
    THEN ranges[Min({i \in 1..Len(ranges) : InRange(amount, ranges[i])})]
    ELSE NoRange

\* Math.abs(diff - outgoingAmount) < 0.0001, both amounts given as numerators
\* (0.0001 SOL is LAMPORTS_PER_SOL / 10000 balance units)
WithinTolerance(diff, outgoingAmount) ==
  Abs(diff - outgoingAmount) < LAMPORTS_PER_SOL \div 10000

Undefined == "undefined"

\* The ScrutinyResult values of performScrutinyCheck, one operator per return statement.
ResultNoHistory ==
  [alertTriggered |-> TRUE, condition |-> "FIRST_TIME_ACTIVITY",
   previousInflowSource |-> Undefined, previousInflowSignature |-> Undefined,
   explanation |-> "No previous transaction history found for recipient"]
ResultCannotParse ==
  [alertTriggered |-> FALSE, condition |-> "NONE",
   previousInflowSource |-> Undefined, previousInflowSignature |-> Undefined,
   explanation |-> "Could not parse previous transaction"]
\* Mutant of ResultNoInflow: the condition is reported without raising the alert.
ResultNoInflowSilent(sig) ==
  [alertTriggered |-> FALSE, condition |-> "FIRST_TIME_ACTIVITY",
   previousInflowSource |-> Undefined, previousInflowSignature |-> sig,
   explanation |-> "No inflow detected in previous transaction"]
ResultNoInflow(sig) ==
  [alertTriggered |-> TRUE, condition |-> "FIRST_TIME_ACTIVITY",
   previousInflowSource |-> Undefined, previousInflowSignature |-> sig,
   explanation |-> "No inflow detected in previous transaction"]
ResultLoop(source, sig) ==
  [alertTriggered |-> TRUE, condition |-> "LOOP_DETECTED",
   previousInflowSource |-> source, previousInflowSignature |-> sig,
   explanation |-> "Loop detected"]
ResultNoLoop(source, sig) ==
  [alertTriggered |-> FALSE, condition |-> "NONE",
   previousInflowSource |-> source, previousInflowSignature |-> sig,
   explanation |-> "Previous inflow, no loop detected"]
\* Mutant of ResultError: the catch block rethrows instead of returning a verdict.
ResultErrorRethrown ==
  [alertTriggered |-> FALSE, condition |-> "THROWN",
   previousInflowSource |-> Undefined, previousInflowSignature |-> Undefined,
   explanation |-> "Error during scrutiny check"]
ResultError ==
  [alertTriggered |-> FALSE, condition |-> "NONE",
   previousInflowSource |-> Undefined, previousInflowSignature |-> Undefined,
   explanation |-> "Error during scrutiny check"]
NoResult ==
  [alertTriggered |-> FALSE, condition |-> "PENDING",
   previousInflowSource |-> Undefined, previousInflowSignature |-> Undefined,
   explanation |-> ""]

\* Mutant of InflowIndexes: any balance change of the recipient counts as an inflow.
InflowIndexesAnyChange(tx, recipientAddress) ==
  {i \in 1..Len(tx.accountKeys) :
     /\ tx.accountKeys[i] = recipientAddress
     /\ tx.postBalances[i] - tx.preBalances[i] # 0}
\* The indexes i at which the scan of the previous transaction finds an inflow:
\* addresses[i] === recipientAddress and (postBalance - preBalance) > 0.
InflowIndexes(tx, recipientAddress) ==
  {i \in 1..Len(tx.accountKeys) :
     /\ tx.accountKeys[i] = recipientAddress
     /\ tx.postBalances[i] - tx.preBalances[i] > 0}

\* Mutant of SourceIndexes: the source is any other account that lost balance.
SourceIndexesAnyOutflow(tx, i) ==
  {j \in 1..Len(tx.accountKeys) :
     /\ j # i
     /\ tx.preBalances[j] - tx.postBalances[j] > 0}
\* The indexes j the inner scan accepts as the source of the inflow at i:
\* j !== i, sourceDiff > 0 and sourceDiff === diff.
SourceIndexes(tx, i) ==
  {j \in 1..Len(tx.accountKeys) :
     /\ j # i
     /\ tx.preBalances[j] - tx.postBalances[j] > 0
     /\ tx.preBalances[j] - tx.postBalances[j] = tx.postBalances[i] - tx.preBalances[i]}

\* let inflowSource = 'UNKNOWN', overwritten by the first accepted source
InflowSource(tx, i) ==
  IF SourceIndexes(tx, i) = {} THEN "UNKNOWN" ELSE tx.accountKeys[Min(SourceIndexes(tx, i))]

\* Mutant of ClassifyPrevious: the loop test compares the source with the recipient.
ClassifyPreviousWrongParty(tx, sig, recipientAddress, cexAddress) ==
  IF InflowIndexes(tx, recipientAddress) = {}
    THEN ResultNoInflow(sig)
    ELSE LET source == InflowSource(tx, Min(InflowIndexes(tx, recipientAddress)))
         IN  IF source = recipientAddress
               THEN ResultLoop(source, sig)
               ELSE ResultNoLoop(source, sig)
\* performScrutinyCheck from "Extract balance changes" to its last return: the verdict
\* on a previous transaction that was fetched with its meta.
ClassifyPrevious(tx, sig, recipientAddress, cexAddress) ==
  IF InflowIndexes(tx, recipientAddress) = {}
    THEN ResultNoInflow(sig)
    ELSE LET source == InflowSource(tx, Min(InflowIndexes(tx, recipientAddress)))
         IN  IF source = cexAddress
               THEN ResultLoop(source, sig)
               ELSE ResultNoLoop(source, sig)

\* new PublicKey(recipientAddress) succeeds
IsPublicKey(address) == address \in Addr

(***************************************************************************)
(* Part 3.  processLogEvent and performScrutinyCheck as processes          *)
(***************************************************************************)

\* The signature of the notification, and of an older transaction of a recipient.
TrigSig == "S1"
PriorSig == "P0"

NoLocal == [cexAccountIndex |-> 0, outgoingAmount |-> 0, matchedRange |-> NoRange,
            recipientAddress |-> ""]
NoArgs == [recipientAddress |-> "", cexAddress |-> "", cexLabel |-> ""]
NoTrace == [decode |-> "notcalled", lookup |-> "notcalled", fetch |-> "notcalled"]
NullAnalysis == [isNull |-> TRUE, accountKeys |-> <<>>]
NoFetchTrace == [fetch |-> "notcalled", refetch |-> [w \in 1..Len(cexWallets) |-> "notcalled"]]
\* No other invocation of processLogEvent is in flight, and none will be.
NoContext == [pc |-> "none"]

\* The RPC node behind `connection`.
LiveConn == [mode |-> "live", lookup |-> "live", fetch |-> "live", tx |-> NoTx]
\* Scripted connections for a direct call: what getSignaturesForAddress answers
\* (rejects, no signature, one signature) and what getParsedTransaction answers.
ScriptedConns ==
  {[mode |-> "scripted", lookup |-> l, fetch |-> "null", tx |-> NoTx] : l \in {"throw", "empty"}}
  \cup {[mode |-> "scripted", lookup |-> "one", fetch |-> k, tx |-> NoTx] :
          k \in {"throw", "null", "nometa"}}
  \cup {[mode |-> "scripted", lookup |-> "one", fetch |-> "ok", tx |-> t] : t \in TxSet}

\* In chain: the node's transaction is not fixed beforehand, it may be any of TxSet.
AnyTx == [accountKeys |-> <<"any">>, preBalances |-> <<>>, postBalances |-> <<>>]
\* The transactions getParsedTransaction may answer for a notified signature.
Held(sig) == IF chain[sig] = AnyTx THEN TxSet ELSE {chain[sig]}

\* fetchAndParseTransaction: null when the transaction is not found or the call
\* throws; otherwise the analysis (tx.meta?.preBalances || [] tolerates a missing meta).
fetchAndParseTransaction(kind, tx) ==
  IF kind \in {"null", "throw"}
    THEN NullAnalysis
    ELSE [isNull |-> FALSE, accountKeys |-> tx.accountKeys]

\* const outgoingAmount = (preBalance - postBalance) / LAMPORTS_PER_SOL, as its numerator
OutgoingAmount(tx, idx) == tx.preBalances[idx] - tx.postBalances[idx]

\* The indexes the recipient scan accepts: i !== cexAccountIndex and
\* Math.abs(diff - outgoingAmount) < 0.0001.
RecipientIndexes(tx, idx, outgoingAmount) ==
  {i \in 1..Len(tx.accountKeys) :
     /\ i # idx
     /\ WithinTolerance(tx.postBalances[i] - tx.preBalances[i], outgoingAmount)}

\* Mutant of RecipientOf: the last accepted account instead of the first.
RecipientOfLast(tx, idx, outgoingAmount) ==
  IF RecipientIndexes(tx, idx, outgoingAmount) = {}
    THEN ""
    ELSE tx.accountKeys[CHOOSE i \in RecipientIndexes(tx, idx, outgoingAmount) :
                          \A j \in RecipientIndexes(tx, idx, outgoingAmount) : j <= i]
\* let recipientAddress = null, overwritten by the first accepted account
RecipientOf(tx, idx, outgoingAmount) ==
  IF RecipientIndexes(tx, idx, outgoingAmount) = {}
    THEN ""
    ELSE tx.accountKeys[Min(RecipientIndexes(tx, idx, outgoingAmount))]

\* The loop body between the second fetch and the scrutiny check: whether this wallet
\* reaches performScrutinyCheck (no `continue` was taken).
WalletMatches(tx, idx, wallet) ==
  /\ OutgoingAmount(tx, idx) > 0
  /\ isAmountInRange(OutgoingAmount(tx, idx), wallet.ranges)
  /\ getMatchingRange(OutgoingAmount(tx, idx), wallet.ranges) # NoRange
  /\ RecipientOf(tx, idx, OutgoingAmount(tx, idx)) # ""

\* The for loop from position k on: wallets absent from txAnalysis.accountKeys are
\* skipped; at the first one present, connection2.getParsedTransaction is awaited.
LoopFrom(k, keys) ==
  LET K == {j \in k..Len(cexWallets) : IndexOf(keys, cexWallets[j].address) # 0}
  IN  IF K = {}
        THEN /\ pc' = "done"
             /\ wi' = 0
             /\ local' = NoLocal
             /\ UNCHANGED txFetches
        ELSE /\ pc' = "refetch"
             /\ wi' = Min(K)
             /\ local' = [NoLocal EXCEPT
                            !.cexAccountIndex = IndexOf(keys, cexWallets[Min(K)].address)]
             /\ txFetches' = txFetches + 1

\* performScrutinyCheck up to its first await: new PublicKey(recipientAddress) throws
\* into the catch block, or getSignaturesForAddress is called.
ScrutinyCall(recipientAddress, cexAddress, cexLabel) ==
  /\ scrArgs' = [recipientAddress |-> recipientAddress, cexAddress |-> cexAddress,
                 cexLabel |-> cexLabel]
  /\ prevSig' = ""
  /\ scrFetches' = 0
  /\ IF IsPublicKey(recipientAddress)
       THEN /\ scrPc' = "lookup"
            /\ scrResult' = NoResult
            /\ scrTrace' = [NoTrace EXCEPT !.decode = "ok"]
       ELSE /\ scrPc' = "returned"
            /\ scrResult' = ResultError
            /\ scrTrace' = [NoTrace EXCEPT !.decode = "throw"]

ScrutinyIdle ==
  /\ scrPc' = "idle"
  /\ scrArgs' = NoArgs
  /\ prevSig' = ""
  /\ scrResult' = NoResult
  /\ scrFetches' = 0
  /\ scrTrace' = NoTrace

\* handleLogsNotification invokes onLog: processLogEvent runs to its first await,
\* fetchAndParseTransaction's getParsedTransaction.
Notify ==
  /\ pc = "idle"
  /\ pc' = "fetch"
  /\ signature' \in DOMAIN chain
  /\ txFetches' = 1
  /\ UNCHANGED <<trigTx, txAnalysis, wi, local, events, conn, priorExists, scrPc, scrArgs,
                 prevSig, scrResult, scrFetches, scrTrace, rpcFailed, fetchTrace, emitted,
                 chain, parked>>
  /\ UNCHANGED wsVars
  /\ UNCHANGED cfgVars

\* fetchAndParseTransaction returns: null ends processLogEvent, an analysis starts the loop.
FetchResponse ==
  /\ pc = "fetch"
  /\ \E kind \in FetchKinds :
       \E tx \in (IF kind \in {"ok", "nometa"} THEN Held(signature) ELSE {NoTx}) :
         /\ trigTx' = tx
         /\ fetchTrace' = [fetchTrace EXCEPT !.fetch = kind]
         /\ txAnalysis' = fetchAndParseTransaction(kind, tx)
         /\ rpcFailed' = (rpcFailed \/ kind # "ok")
         /\ IF fetchAndParseTransaction(kind, tx).isNull
              THEN /\ pc' = "done"
                   /\ UNCHANGED <<wi, local, txFetches>>
              ELSE LoopFrom(1, tx.accountKeys)
  /\ UNCHANGED <<signature, events, conn, priorExists, scrPc, scrArgs, prevSig, scrResult,
                 scrFetches, scrTrace, emitted, chain, parked>>
  /\ UNCHANGED wsVars
  /\ UNCHANGED cfgVars

\* connection2.getParsedTransaction returns for the wallet at wi: a rejection goes to
\* processLogEvent's catch, a missing transaction or meta and every `continue` go to
\* the next wallet, a match calls performScrutinyCheck.
RefetchResponse ==
  /\ pc = "refetch"
  /\ \E kind \in FetchKinds :
       /\ rpcFailed' = (rpcFailed \/ kind # "ok")
       /\ fetchTrace' = [fetchTrace EXCEPT !.refetch[wi] = kind]
       /\ IF kind = "throw"
            THEN /\ pc' = "done"
                 /\ wi' = 0
                 /\ local' = NoLocal
                 /\ UNCHANGED <<txFetches, scrPc, scrArgs, prevSig, scrResult, scrFetches,
                                scrTrace>>
            ELSE IF kind = "ok" /\ WalletMatches(trigTx, local.cexAccountIndex, cexWallets[wi])
              THEN LET out == OutgoingAmount(trigTx, local.cexAccountIndex)
                       rec == RecipientOf(trigTx, local.cexAccountIndex, out)
                   IN  /\ pc' = "scrutiny"
                       /\ local' = [cexAccountIndex |-> local.cexAccountIndex,
                                    outgoingAmount |-> out,
                                    matchedRange |-> getMatchingRange(out, cexWallets[wi].ranges),
                                    recipientAddress |-> rec]
                       /\ ScrutinyCall(rec, cexWallets[wi].address, cexWallets[wi].label)
                       /\ UNCHANGED <<wi, txFetches>>
              ELSE /\ LoopFrom(wi + 1, txAnalysis.accountKeys)
                   /\ UNCHANGED <<scrPc, scrArgs, prevSig, scrResult, scrFetches, scrTrace>>
  /\ UNCHANGED <<signature, trigTx, txAnalysis, events, conn, priorExists, emitted, chain,
                 parked>>
  /\ UNCHANGED wsVars
  /\ UNCHANGED cfgVars

\* A direct call of performScrutinyCheck with the arguments and connection of Init.
DirectCall ==
  /\ pc = "direct"
  /\ scrPc = "idle"
  /\ ScrutinyCall(scrArgs.recipientAddress, scrArgs.cexAddress, scrArgs.cexLabel)
  /\ UNCHANGED <<pc, signature, trigTx, txAnalysis, wi, local, events, txFetches, conn,
                 priorExists, rpcFailed, fetchTrace, emitted, chain, parked>>
  /\ UNCHANGED wsVars
  /\ UNCHANGED cfgVars

\* What getSignaturesForAddress(recipientPk, {limit: 1}) may answer.  The live node
\* answers newest first: the triggering transaction if it already lists it, else the
\* recipient's older transaction if there is one.
LookupResponses ==
  IF conn.mode = "live"
    THEN {[kind |-> "throw", sigs |-> <<>>],
          [kind |-> "ok", sigs |-> <<signature>>],
          [kind |-> "ok", sigs |-> IF priorExists THEN <<PriorSig>> ELSE <<>>]}
    ELSE {[kind |-> IF conn.lookup = "throw" THEN "throw" ELSE "ok",
           sigs |-> IF conn.lookup = "one" THEN <<PriorSig>> ELSE <<>>]}

\* Mutant of NoSignatures: the empty answer is not recognised.
NoSignaturesNever(signatures) == FALSE
\* if (signatures.length === 0)
NoSignatures(signatures) == Len(signatures) = 0

\* getSignaturesForAddress returns: a rejection goes to the catch block, no signature
\* is FIRST_TIME_ACTIVITY, otherwise getParsedTransaction(previousTx.signature) is awaited.
ScrLookup ==
  /\ scrPc = "lookup"
  /\ \E resp \in LookupResponses :
       /\ rpcFailed' = (rpcFailed \/ resp.kind = "throw")
       /\ scrTrace' = [scrTrace EXCEPT
                         !.lookup = IF resp.kind = "throw" THEN "throw"
                                    ELSE IF resp.sigs = <<>> THEN "empty" ELSE "one"]
       /\ IF resp.kind = "throw"
            THEN /\ scrPc' = "returned"
                 /\ scrResult' = ResultError
                 /\ UNCHANGED <<prevSig, scrFetches>>
            ELSE IF NoSignatures(resp.sigs)
              THEN /\ scrPc' = "returned"
                   /\ scrResult' = ResultNoHistory
                   /\ UNCHANGED <<prevSig, scrFetches>>
              ELSE /\ scrPc' = "fetchPrev"
                   /\ prevSig' = IF resp.sigs = <<>> THEN Undefined ELSE resp.sigs[1]
                   /\ scrFetches' = scrFetches + 1
                   /\ UNCHANGED scrResult
  /\ UNCHANGED <<pc, signature, trigTx, txAnalysis, wi, local, events, txFetches, conn,
                 priorExists, scrArgs, fetchTrace, emitted, chain, parked>>
  /\ UNCHANGED wsVars
  /\ UNCHANGED cfgVars

\* The older transactions the live node may hold for an account: transfers between
\* that account and one other.
PriorTxSet(address) ==
  {u \in TxSet : Len(u.accountKeys) = 2 /\ IndexOf(u.accountKeys, address) # 0}

\* What getParsedTransaction(previousTx.signature) may answer.  The live node holds
\* the triggering transaction under its signature, and under an older signature some
\* transaction that lists the recipient.
PrevFetchResponses ==
  IF conn.mode = "live"
    THEN {[kind |-> k, tx |-> NoTx] : k \in {"throw", "null", "nometa"}}
         \cup {[kind |-> "ok", tx |-> t] :
                 t \in (IF prevSig = signature
                          THEN {trigTx}
                          ELSE PriorTxSet(scrArgs.recipientAddress))}
    ELSE {[kind |-> conn.fetch, tx |-> conn.tx]}

\* getParsedTransaction returns: a rejection goes to the catch block, a missing
\* transaction or meta is "Could not parse", otherwise the transaction is classified.
ScrFetchPrev ==
  /\ scrPc = "fetchPrev"
  /\ \E resp \in PrevFetchResponses :
       /\ rpcFailed' = (rpcFailed \/ resp.kind # "ok")
       /\ scrTrace' = [scrTrace EXCEPT !.fetch = resp.kind]
       /\ scrResult' =
            IF resp.kind = "throw" THEN ResultError
            ELSE IF resp.kind \in {"null", "nometa"} THEN ResultCannotParse
            ELSE ClassifyPrevious(resp.tx, prevSig, scrArgs.recipientAddress,
                                  scrArgs.cexAddress)
  /\ scrPc' = "returned"
  /\ UNCHANGED <<pc, signature, trigTx, txAnalysis, wi, local, events, txFetches, conn,
                 priorExists, scrArgs, prevSig, scrFetches, fetchTrace, emitted, chain, parked>>
  /\ UNCHANGED wsVars
  /\ UNCHANGED cfgVars

\* A detectionEvent whose signature is read from a variable the latest notification
\* overwrites, instead of the invocation's own parameter.
DetectionEventShared ==
  [signature |-> IF parked # NoContext /\ parked.pc # "idle" THEN parked.signature
                                                               ELSE signature,
   cexLabel |-> cexWallets[wi].label,
   cexAddress |-> cexWallets[wi].address,
   recipientAddress |-> local.recipientAddress,
   outgoingAmount |-> local.outgoingAmount,
   matchedRange |-> local.matchedRange,
   scrutinyResult |-> scrResult]

\* const detectionEvent = {...}
DetectionEvent ==
  [signature |-> signature,
   cexLabel |-> cexWallets[wi].label,
   cexAddress |-> cexWallets[wi].address,
   recipientAddress |-> local.recipientAddress,
   outgoingAmount |-> local.outgoingAmount,
   matchedRange |-> local.matchedRange,
   scrutinyResult |-> scrResult]

\* processLogEvent resumes after `await performScrutinyCheck(...)`: the event is built
\* and handed to handleDetection (which only logs), and the loop goes on.  A rejected
\* await would go to processLogEvent's catch.
Resume ==
  /\ pc = "scrutiny"
  /\ scrPc = "returned"
  /\ IF scrResult.condition = "THROWN"
       THEN /\ pc' = "done"
            /\ wi' = 0
            /\ local' = NoLocal
            /\ UNCHANGED <<events, emitted, txFetches>>
       ELSE /\ events' = Append(events, DetectionEvent)
            /\ emitted' = Append(emitted, DetectionEvent)
            /\ LoopFrom(wi + 1, txAnalysis.accountKeys)
  /\ ScrutinyIdle
  /\ UNCHANGED <<signature, trigTx, txAnalysis, conn, priorExists, rpcFailed, fetchTrace,
                 chain, parked>>
  /\ UNCHANGED wsVars
  /\ UNCHANGED cfgVars

InitIdle ==
  /\ signature = ""
  /\ trigTx = NoTx
  /\ txAnalysis = NullAnalysis
  /\ wi = 0
  /\ local = NoLocal
  /\ events = <<>>
  /\ txFetches = 0
  /\ scrPc = "idle"
  /\ prevSig = ""
  /\ scrResult = NoResult
  /\ scrFetches = 0
  /\ scrTrace = NoTrace
  /\ rpcFailed = FALSE
  /\ fetchTrace = NoFetchTrace
  /\ emitted = <<>>

\* The process after startup: configuration loaded, no notification yet; the RPC node
\* may or may not hold older transactions of the accounts.
InitDetect ==
  /\ InitIdle
  /\ pc = "idle"
  /\ conn = LiveConn
  /\ priorExists \in BOOLEAN
  /\ scrArgs = NoArgs
  /\ chain = [s \in {TrigSig} |-> AnyTx]
  /\ parked = NoContext

\* performScrutinyCheck about to be called on its own, with any recipient string, any
\* paying wallet and any scripted connection.
InitDirect ==
  /\ InitIdle
  /\ pc = "direct"
  /\ conn \in ScriptedConns
  /\ priorExists = FALSE
  /\ chain = [s \in {TrigSig} |-> AnyTx]
  /\ parked = NoContext
  /\ scrArgs \in {[recipientAddress |-> r, cexAddress |-> cexWallets[w].address,
                   cexLabel |-> cexWallets[w].label] :
                    r \in Addr \cup {BadAddr}, w \in 1..Len(cexWallets)}

\* The invocation of processLogEvent whose continuation runs next: its parameters and
\* locals, those of the performScrutinyCheck call it awaits, and its history.
Current ==
  [pc |-> pc, signature |-> signature, trigTx |-> trigTx, txAnalysis |-> txAnalysis,
   wi |-> wi, local |-> local, txFetches |-> txFetches, scrPc |-> scrPc,
   scrArgs |-> scrArgs, prevSig |-> prevSig, scrResult |-> scrResult,
   scrFetches |-> scrFetches, scrTrace |-> scrTrace, rpcFailed |-> rpcFailed,
   fetchTrace |-> fetchTrace, emitted |-> emitted]

\* An invocation that has not been started: the next notification starts it.
IdleContext ==
  [pc |-> "idle", signature |-> "", trigTx |-> NoTx, txAnalysis |-> NullAnalysis,
   wi |-> 0, local |-> NoLocal, txFetches |-> 0, scrPc |-> "idle",
   scrArgs |-> NoArgs, prevSig |-> "", scrResult |-> NoResult,
   scrFetches |-> 0, scrTrace |-> NoTrace, rpcFailed |-> FALSE,
   fetchTrace |-> NoFetchTrace, emitted |-> <<>>]

\* The event loop runs a continuation of the other invocation: each invocation waits
\* at an await (or has not started, or has returned), and the RPC completions of the
\* two arrive in any order.  Nothing of either invocation changes.
Switch ==
  /\ parked # NoContext
  /\ parked' = Current
  /\ pc' = parked.pc
  /\ signature' = parked.signature
  /\ trigTx' = parked.trigTx
  /\ txAnalysis' = parked.txAnalysis
  /\ wi' = parked.wi
  /\ local' = parked.local
  /\ txFetches' = parked.txFetches
  /\ scrPc' = parked.scrPc
  /\ scrArgs' = parked.scrArgs
  /\ prevSig' = parked.prevSig
  /\ scrResult' = parked.scrResult
  /\ scrFetches' = parked.scrFetches
  /\ scrTrace' = parked.scrTrace
  /\ rpcFailed' = parked.rpcFailed
  /\ fetchTrace' = parked.fetchTrace
  /\ emitted' = parked.emitted
  /\ UNCHANGED <<events, conn, priorExists, chain>>
  /\ UNCHANGED wsVars
  /\ UNCHANGED cfgVars

\* A second signature the stream may notify.
OtherSig == "S2"

\* The transactions the node holds in a run with two notifications: two configured
\* wallets paying one recipient, one wallet paying with a fee, and a transfer between
\* two other accounts.
PairTxs ==
  {[accountKeys |-> <<"W1", "W2", "R">>,
    preBalances |-> <<BaseBalance, BaseBalance, BaseBalance>>,
    postBalances |-> <<BaseBalance - Transfer, BaseBalance - Transfer, BaseBalance + Transfer>>],
   [accountKeys |-> <<"T", "W1">>,
    preBalances |-> <<BaseBalance, BaseBalance>>,
    postBalances |-> <<BaseBalance + Transfer, BaseBalance - (Transfer + FeeUnits)>>],
   [accountKeys |-> <<"R", "T">>,
    preBalances |-> <<BaseBalance, BaseBalance>>,
    postBalances |-> <<BaseBalance - Transfer, BaseBalance + Transfer>>]}

(***************************************************************************)
(* Part 4.  loadConfig and the range parsers                               *)
(*                                                                         *)
(* A range string is modelled by what split(',') and split('-') make of    *)
(* it: a sequence of items, each a sequence of parts.  A part is a decimal *)
(* number, the empty string (or blanks), or some other text.               *)
(***************************************************************************)

\* Largest number written in a range string.
MaxNum == 2
\* Most parts of an item, and most items of a range string.
MaxParts == 2
MaxItems == 2

Parts ==
  {[kind |-> "num", v |-> n] : n \in 0..MaxNum}
  \cup {[kind |-> "empty", v |-> 0], [kind |-> "text", v |-> 0]}
Items == UNION {[1..n -> Parts] : n \in 1..MaxParts}

\* Number(part): the number written, 0 for the empty string, NaN for other text.
NumberOf(part) ==
  IF part.kind = "num" THEN [nan |-> FALSE, v |-> part.v]
  ELSE IF part.kind = "empty" THEN [nan |-> FALSE, v |-> 0]
  ELSE [nan |-> TRUE, v |-> 0]

\* const [min, max] = item.split('-').map(Number): a missing element is undefined,
\* and isNaN(undefined) is true.
ElementOf(item, k) == IF k <= Len(item) THEN NumberOf(item[k]) ELSE [nan |-> TRUE, v |-> 0]

\* isNaN(min) || isNaN(max)
InvalidFormat(item) == ElementOf(item, 1).nan \/ ElementOf(item, 2).nan
\* min > max
Inverted(item) == ElementOf(item, 1).v > ElementOf(item, 2).v

ParseError == <<[min |-> 0 - 1, max |-> 0 - 1]>>

\* parseRanges of env.ts: throws on an item without two numbers, otherwise {min, max}.
parseRanges(rangeStr) ==
  IF \E i \in 1..Len(rangeStr) : InvalidFormat(rangeStr[i])
    THEN ParseError
    ELSE [i \in 1..Len(rangeStr) |->
            [min |-> ElementOf(rangeStr[i], 1).v, max |-> ElementOf(rangeStr[i], 2).v]]

\* parseRangeString of rangeParser.ts: it also throws when min > max.
parseRangeString(rangeStr) ==
  IF \E i \in 1..Len(rangeStr) : InvalidFormat(rangeStr[i]) \/ Inverted(rangeStr[i])
    THEN ParseError
    ELSE [i \in 1..Len(rangeStr) |->
            [min |-> ElementOf(rangeStr[i], 1).v, max |-> ElementOf(rangeStr[i], 2).v]]

\* loadConfig for one configured wallet: its ranges are parseRanges(CEX_1_RANGE); an
\* exception leaves the module load of index.ts and ends the process.
LoadConfig ==
  /\ cfgPc = "start"
  /\ IF parseRanges(envRange) = ParseError
       THEN /\ cfgPc' = "failed"
            /\ cfgRanges' = <<>>
       ELSE /\ cfgPc' = "loaded"
            /\ cfgRanges' = parseRanges(envRange)
  /\ UNCHANGED <<envRange, wsVars, detVars>>

\* The configuration the other parts run with: loadConfig returned cexWallets.
InitConfigured ==
  /\ cfgPc = "loaded"
  /\ envRange = <<>>
  /\ cfgRanges = cexWallets[1].ranges

(***************************************************************************)
(* Specifications                                                          *)
(***************************************************************************)

\* The detection pipeline on one notification, and performScrutinyCheck on its own.
Init ==
  /\ InitWS
  /\ InitConfigured
  /\ InitDetect \/ InitDirect

Next ==
  \/ Notify
  \/ FetchResponse
  \/ RefetchResponse
  \/ DirectCall
  \/ ScrLookup
  \/ ScrFetchPrev
  \/ Resume

Spec == Init /\ [][Next]_vars

\* The stream client under startListener, with no notification being processed.
InitStream ==
  /\ InitWS
  /\ InitConfigured
  /\ InitDetect
  /\ priorExists = FALSE

SpecWS == InitStream /\ [][NextWS]_vars

\* The same with the scheduling of the event loop: a pending setTimeout callback runs,
\* and the handshake of a connecting transport ends, with 'open' or with a failure.
SpecWSLive ==
  /\ InitStream
  /\ [][NextWS]_vars
  /\ WF_vars(TimerFire)
  /\ WF_vars(Open \/ ConnectFail)

\* Two notifications in flight: the stream delivers two signatures, or the same one
\* twice, and the node holds a fixed transaction under each signature.
InitPair ==
  /\ InitWS
  /\ InitConfigured
  /\ InitIdle
  /\ pc = "idle"
  /\ conn = LiveConn
  /\ priorExists = FALSE
  /\ scrArgs = NoArgs
  /\ chain \in [{TrigSig, OtherSig} -> PairTxs]
  /\ parked = IdleContext

NextPair ==
  \/ Notify
  \/ FetchResponse
  \/ RefetchResponse
  \/ ScrLookup
  \/ ScrFetchPrev
  \/ Resume
  \/ Switch

SpecPair == InitPair /\ [][NextPair]_vars

\* loadConfig at module load, for every CEX_1_RANGE of the bounds; nothing else has run.
InitConfig ==
  /\ InitWS
  /\ InitDetect
  /\ priorExists = FALSE
  /\ cfgPc = "start"
  /\ envRange \in UNION {[1..n -> Items] : n \in 1..MaxItems}
  /\ cfgRanges = <<>>

NextConfig == LoadConfig

SpecConfig == InitConfig /\ [][NextConfig]_vars

(***************************************************************************)
(* Claims                                                                  *)
(***************************************************************************)

\* The transaction performScrutinyCheck classified, when the state still tells which:
\* the scripted connection's, or the triggering one when its signature was looked up.
Inspected ==
  IF conn.mode = "scripted" THEN conn.tx
  ELSE IF prevSig = signature THEN trigTx ELSE NoTx

\* performScrutinyCheck returned after fetching a previous transaction with its meta.
ClassifiedPrevious ==
  /\ scrPc = "returned"
  /\ scrTrace.lookup = "one"
  /\ scrTrace.fetch = "ok"
  /\ Inspected # NoTx

\* In tx, account i gained balance and j is the first other account, in account-list
\* order, that lost exactly what i gained.
FirstEqualOutflow(tx, i, j) ==
  /\ i # j
  /\ tx.postBalances[i] - tx.preBalances[i] > 0
  /\ tx.preBalances[j] - tx.postBalances[j] = tx.postBalances[i] - tx.preBalances[i]
  /\ \A k \in 1..(j - 1) :
       k # i => tx.preBalances[k] - tx.postBalances[k] # tx.postBalances[i] - tx.preBalances[i]

\* C1: the previous transaction performScrutinyCheck inspects for the recipient is
\* never the triggering transaction itself: the signature it fetches after the lookup
\* differs from the signature processLogEvent is handling.
C1_PreviousIsNotTrigger ==
  (pc = "scrutiny" /\ scrTrace.lookup = "one") => prevSig # signature

\* C2: end to end, when processLogEvent is done, every RPC call succeeded, and the
\* recipients have no transaction other than the triggering one: each configured
\* wallet whose outflow is inside one of its ranges and has a recipient got exactly
\* one DetectionEvent, for that wallet, recipient and first matching range, with
\* condition FIRST_TIME_ACTIVITY.
C2_EndToEndFirstTime ==
  (pc = "done" /\ ~rpcFailed /\ ~priorExists /\ ~txAnalysis.isNull) =>
    \A w \in 1..Len(cexWallets) :
      LET idx == IndexOf(trigTx.accountKeys, cexWallets[w].address)
      IN  (idx # 0 /\ WalletMatches(trigTx, idx, cexWallets[w])) =>
            /\ Cardinality({e \in 1..Len(events) :
                              /\ events[e].signature = signature
                              /\ events[e].cexAddress = cexWallets[w].address}) = 1
            /\ \A e \in 1..Len(events) :
                 events[e].cexAddress = cexWallets[w].address =>
                   /\ events[e].recipientAddress =
                        RecipientOf(trigTx, idx, OutgoingAmount(trigTx, idx))
                   /\ events[e].matchedRange =
                        getMatchingRange(OutgoingAmount(trigTx, idx), cexWallets[w].ranges)
                   /\ events[e].scrutinyResult.condition = "FIRST_TIME_ACTIVITY"

C4_NoHistoryIsFirstTime ==
  (scrPc \in {"fetchPrev", "returned"} /\ scrTrace.lookup = "empty") =>
    /\ scrPc = "returned"
    /\ scrResult.condition = "FIRST_TIME_ACTIVITY"
    /\ scrResult.alertTriggered = TRUE
    /\ scrFetches = 0
    /\ scrTrace.fetch = "notcalled"

C4_Witness ==
  /\ scrPc = "returned"
  /\ scrTrace.lookup = "empty"
  /\ scrResult = ResultNoHistory
  /\ scrFetches = 0

ScrutinyFailed ==
  \/ scrTrace.decode = "throw"
  \/ scrTrace.lookup = "throw"
  \/ scrTrace.fetch \in {"throw", "null", "nometa"}

\* C6: performScrutinyCheck never throws: it returns a ScrutinyResult, and after a
\* failure (address decoding, lookup, fetch, missing transaction or meta) that result
\* is NONE without alertTriggered and with an explanation; processLogEvent then
\* resumes, emits the event with that result and goes on to the next wallet or ends.
C6_ScrutinyNeverThrows ==
  [][ /\ scrPc' = "returned" =>
           /\ scrResult'.condition \in {"LOOP_DETECTED", "FIRST_TIME_ACTIVITY", "NONE"}
           /\ ScrutinyFailed' =>
                /\ scrResult'.condition = "NONE"
                /\ scrResult'.alertTriggered = FALSE
                /\ scrResult'.explanation # ""
      /\ (pc = "scrutiny" /\ scrPc = "returned") =>
           /\ Len(events') = Len(events) + 1
           /\ events'[Len(events')].scrutinyResult = scrResult
           /\ pc' \in {"refetch", "done"} ]_vars

C6_Witness ==
  /\ pc = "done"
  /\ \E e \in 1..Len(events) :
       /\ events[e].scrutinyResult.condition = "NONE"
       /\ events[e].scrutinyResult.explanation = "Error during scrutiny check"

\* C7: the reconnect attempt counter goes back to zero only in a state where the
\* subscription response of the current transport has been received.
C7_ResetOnlyAfterSubscribed ==
  [][(reconnectAttempts > 0 /\ reconnectAttempts' = 0) => serverSubId' # NullId]_vars

\* C8: a pending reconnect timer was armed with reconnectDelay * 2^(n-1) ms, n-1 being
\* the reconnect attempts that failed since the last successful connection: 3000,
\* 6000, 12000, 24000 for n = 1..4; and no timer is armed after maxReconnectAttempts
\* failed attempts.
C8_BackoffSchedule ==
  /\ \A t \in 1..Len(timers) :
       /\ failedAttempts < maxReconnectAttempts
       /\ timers[t] = reconnectDelay * 2^failedAttempts
       /\ failedAttempts = 0 => timers[t] = 3000
       /\ failedAttempts = 1 => timers[t] = 6000
       /\ failedAttempts = 2 => timers[t] = 12000
       /\ failedAttempts = 3 => timers[t] = 24000
  /\ failedAttempts >= maxReconnectAttempts => timers = <<>>
  /\ "giveUp" \in effects => (failedAttempts = maxReconnectAttempts /\ timers = <<>>)

C8_Witness ==
  /\ failedAttempts = 3
  /\ timers = <<24000>>
  /\ reconnectAttempts = 4

\* C9: the step in which reconnect() gives up leaves the process running and changes
\* something the host observes (the promise startListener awaits, or a callback it
\* registered being invoked), and no transport is created afterwards.
C9_GiveUpIsObservable ==
  [][ /\ "giveUp" \in effects' =>
           /\ exitCode' = Running
           /\ <<startPromise, delivered>>' # <<startPromise, delivered>>
      /\ "giveUp" \in effects => "newTransport" \notin effects' ]_vars

\* C10: once close() has been called, no handler creates a transport, sends a
\* subscription request or invokes onLog.
C10_ClosedIsTerminal ==
  isManualClose => effects \cap {"newTransport", "subscribeSent", "onLog"} = {}

\* C11: a transport that fails to connect or drops while no close() was called and
\* attempts remain, the first transport of startListener included, leaves the process
\* running and arms a reconnect timer with the backoff delay.
C11_TransportErrorReconnects ==
  [][ (ws \in {"CONNECTING", "OPEN"} /\ ws' = "CLOSED"
       /\ ~isManualClose /\ ~GivesUp(reconnectAttempts)) =>
        /\ exitCode' = Running
        /\ timers' = Append(timers, BackoffDelay(reconnectAttempts + 1)) ]_vars

\* Frames handleMessage cannot decode: not JSON, or a logsNotification without
\* result.value.
Undecodable ==
  {m \in Messages : m.kind \in {"invalid", "notificationNoResult", "notificationNoValue"}}

\* C12: the handler of a frame that cannot be decoded does not invoke onLog, leaves the
\* transport open, arms no reconnect timer and leaves subscriptionId and
\* reconnectAttempts as they were.
C12_UndecodableIsDropped ==
  [][ inbound' \in Undecodable =>
        /\ delivered' = delivered
        /\ "onLog" \notin effects'
        /\ ws' = "OPEN"
        /\ timers' = timers
        /\ reconnectAttempts' = reconnectAttempts
        /\ subscriptionId' = subscriptionId ]_vars

\* C13: the handler of a logsNotification frame carrying result.value invokes onLog
\* exactly once.
C13_NotificationIsDelivered ==
  [][ inbound'.kind = "notification" =>
        /\ delivered' = delivered + 1
        /\ "onLog" \in effects' ]_vars

\* C14: while and after processLogEvent handles a notification, it has called
\* getParsedTransaction for the notification's signature exactly once.
C14_FetchedOnce ==
  pc \in {"fetch", "refetch", "scrutiny", "done"} => txFetches = 1

\* Configured wallet w qualifies in the triggering transaction: it is in the account
\* list, its balance fell by an amount inside one of its ranges, and another account
\* gained that amount (within the tolerance).
Qualifies(w) ==
  \E idx \in 1..Len(trigTx.accountKeys) :
    /\ trigTx.accountKeys[idx] = cexWallets[w].address
    /\ trigTx.preBalances[idx] - trigTx.postBalances[idx] > 0
    /\ \E r \in 1..Len(cexWallets[w].ranges) :
         /\ trigTx.preBalances[idx] - trigTx.postBalances[idx]
              >= cexWallets[w].ranges[r].min * LAMPORTS_PER_SOL
         /\ trigTx.preBalances[idx] - trigTx.postBalances[idx]
              <= cexWallets[w].ranges[r].max * LAMPORTS_PER_SOL
    /\ \E i \in 1..Len(trigTx.accountKeys) :
         /\ i # idx
         /\ Abs((trigTx.postBalances[i] - trigTx.preBalances[i])
                - (trigTx.preBalances[idx] - trigTx.postBalances[idx]))
              < LAMPORTS_PER_SOL \div 10000

\* The events this invocation emitted for configured wallet w.
EmittedFor(w) == {e \in 1..Len(emitted) : emitted[e].cexAddress = cexWallets[w].address}

\* C15: when processLogEvent is done with a notification whose transaction was found,
\* it has emitted exactly one DetectionEvent for every configured wallet that
\* qualifies in the transaction and none for any other wallet.
C15_OneEventPerMatch ==
  (pc = "done" /\ ~txAnalysis.isNull) =>
    /\ \A w \in 1..Len(cexWallets) :
         Cardinality(EmittedFor(w)) = IF Qualifies(w) THEN 1 ELSE 0
    /\ \A e \in 1..Len(emitted) :
         \E w \in 1..Len(cexWallets) : emitted[e].cexAddress = cexWallets[w].address

\* Event ev is about configured wallet w at index idx of the triggering transaction:
\* the amount is the wallet's balance decrease and is positive, the range is the first
\* of the wallet's ranges holding it, and the recipient is an account at another index
\* whose balance increase is within the tolerance of the amount.
WellFormedAt(ev, w, idx) ==
  /\ ev.cexAddress = cexWallets[w].address
  /\ ev.cexLabel = cexWallets[w].label
  /\ trigTx.accountKeys[idx] = ev.cexAddress
  /\ ev.outgoingAmount = trigTx.preBalances[idx] - trigTx.postBalances[idx]
  /\ ev.outgoingAmount > 0
  /\ \E r \in 1..Len(cexWallets[w].ranges) :
       /\ ev.matchedRange = cexWallets[w].ranges[r]
       /\ cexWallets[w].ranges[r].min * LAMPORTS_PER_SOL <= ev.outgoingAmount
       /\ ev.outgoingAmount <= cexWallets[w].ranges[r].max * LAMPORTS_PER_SOL
       /\ \A q \in 1..(r - 1) :
            \/ cexWallets[w].ranges[q].min * LAMPORTS_PER_SOL > ev.outgoingAmount
            \/ ev.outgoingAmount > cexWallets[w].ranges[q].max * LAMPORTS_PER_SOL
  /\ \E i \in 1..Len(trigTx.accountKeys) :
       /\ i # idx
       /\ trigTx.accountKeys[i] = ev.recipientAddress
       /\ Abs((trigTx.postBalances[i] - trigTx.preBalances[i]) - ev.outgoingAmount)
            < LAMPORTS_PER_SOL \div 10000

\* C16: every DetectionEvent emitted carries the notification's signature and is well
\* formed for one configured wallet at its index in the triggering transaction.
C16_EventWellFormed ==
  \A e \in 1..Len(emitted) :
    /\ emitted[e].signature = signature
    /\ \E w \in 1..Len(cexWallets) :
         \E idx \in 1..Len(trigTx.accountKeys) : WellFormedAt(emitted[e], w, idx)

\* An event was emitted for an amount that two ranges of its wallet hold.
C16_Witness ==
  \E e \in 1..Len(emitted) :
    /\ emitted[e].cexAddress = cexWallets[1].address
    /\ emitted[e].matchedRange = cexWallets[1].ranges[1]
    /\ InRange(emitted[e].outgoingAmount, cexWallets[1].ranges[2])
    /\ emitted[e].recipientAddress \in Addr

\* C17: once fetchAndParseTransaction has returned, it returned null exactly when
\* getParsedTransaction did not answer a transaction with its meta (not found, no
\* meta, or a rejected call).
C17_NoMetaIsNull ==
  fetchTrace.fetch # "notcalled" => (txAnalysis.isNull <=> fetchTrace.fetch # "ok")

\* In the triggering transaction, the account at index i is not the sender at idx and
\* its balance increase is within the tolerance of the amount the sender lost.
GainsWhatLost(idx, i) ==
  /\ i # idx
  /\ Abs((trigTx.postBalances[i] - trigTx.preBalances[i])
         - (trigTx.preBalances[idx] - trigTx.postBalances[idx])) < LAMPORTS_PER_SOL \div 10000

\* C18: the recipient processLogEvent hands to the scrutiny check and puts in the event
\* is the first account, in account-list order, that gains what the sender lost; it is
\* the only one when only one does; and when no account does, the wallet gets no
\* scrutiny check and no event.
C18_FirstRecipient ==
  /\ pc = "scrutiny" =>
       \E i \in 1..Len(trigTx.accountKeys) :
         /\ GainsWhatLost(local.cexAccountIndex, i)
         /\ \A k \in 1..(i - 1) : ~GainsWhatLost(local.cexAccountIndex, k)
         /\ local.recipientAddress = trigTx.accountKeys[i]
         /\ scrArgs.recipientAddress = trigTx.accountKeys[i]
         /\ (\A k \in 1..Len(trigTx.accountKeys) : GainsWhatLost(local.cexAccountIndex, k) => k = i)
              => \A k \in 1..Len(trigTx.accountKeys) :
                   (k # local.cexAccountIndex
                    /\ trigTx.postBalances[k] - trigTx.preBalances[k]
                         = trigTx.preBalances[local.cexAccountIndex]
                           - trigTx.postBalances[local.cexAccountIndex])
                     => local.recipientAddress = trigTx.accountKeys[k]
  /\ \A e \in 1..Len(emitted) :
       \E idx, i \in 1..Len(trigTx.accountKeys) :
         /\ trigTx.accountKeys[idx] = emitted[e].cexAddress
         /\ GainsWhatLost(idx, i)
         /\ \A k \in 1..(i - 1) : ~GainsWhatLost(idx, k)
         /\ emitted[e].recipientAddress = trigTx.accountKeys[i]
  /\ \A w \in 1..Len(cexWallets) :
       \A idx \in 1..Len(trigTx.accountKeys) :
         ( /\ trigTx.accountKeys[idx] = cexWallets[w].address
           /\ \A i \in 1..Len(trigTx.accountKeys) : ~GainsWhatLost(idx, i) ) =>
             /\ EmittedFor(w) = {}
             /\ ~(pc = "scrutiny" /\ wi = w)

\* A sender lost an amount that two later accounts both gained, and the first of them
\* is the recipient of the emitted event.
C18_Witness ==
  \E e \in 1..Len(emitted) :
    \E idx, i, j \in 1..Len(trigTx.accountKeys) :
      /\ trigTx.accountKeys[idx] = emitted[e].cexAddress
      /\ i < j
      /\ GainsWhatLost(idx, i)
      /\ GainsWhatLost(idx, j)
      /\ emitted[e].recipientAddress = trigTx.accountKeys[i]

\* C19: every range of a wallet loadConfig returned has min <= max, and loadConfig
\* returns no wallet for a range string that parseRangeString rejects.
C19_LoadedRangesOrdered ==
  cfgPc = "loaded" =>
    /\ \A i \in 1..Len(cfgRanges) : cfgRanges[i].min <= cfgRanges[i].max
    /\ parseRangeString(envRange) # ParseError

\* The invocations of processLogEvent in the run: the running one and the waiting one.
Invocations == {Current} \cup (IF parked = NoContext THEN {} ELSE {parked})

\* Configured wallet w qualifies in transaction tx: it lost a positive amount inside
\* one of its ranges and another account gained that amount within the tolerance.
QualifiesIn(tx, w) ==
  \E idx \in 1..Len(tx.accountKeys) :
    /\ tx.accountKeys[idx] = cexWallets[w].address
    /\ tx.preBalances[idx] - tx.postBalances[idx] > 0
    /\ \E r \in 1..Len(cexWallets[w].ranges) :
         /\ tx.preBalances[idx] - tx.postBalances[idx]
              >= cexWallets[w].ranges[r].min * LAMPORTS_PER_SOL
         /\ tx.preBalances[idx] - tx.postBalances[idx]
              <= cexWallets[w].ranges[r].max * LAMPORTS_PER_SOL
    /\ \E i \in 1..Len(tx.accountKeys) :
         /\ i # idx
         /\ Abs((tx.postBalances[i] - tx.preBalances[i])
                - (tx.preBalances[idx] - tx.postBalances[idx]))
              < LAMPORTS_PER_SOL \div 10000

\* Event ev is the event of a run alone on transaction tx under signature sig: it is
\* about one configured wallet, with the amount that wallet lost in tx, the first of
\* its ranges holding the amount, a recipient of tx that gained the amount, and a
\* scrutiny result that names no other notification's signature.
EventOfAlone(ev, sig, tx) ==
  /\ ev.signature = sig
  /\ ev.scrutinyResult.previousInflowSignature \in {Undefined, sig, PriorSig}
  /\ \E w \in 1..Len(cexWallets) :
       \E idx \in 1..Len(tx.accountKeys) :
         /\ ev.cexAddress = cexWallets[w].address
         /\ ev.cexLabel = cexWallets[w].label
         /\ tx.accountKeys[idx] = ev.cexAddress
         /\ ev.outgoingAmount = tx.preBalances[idx] - tx.postBalances[idx]
         /\ ev.matchedRange = getMatchingRange(ev.outgoingAmount, cexWallets[w].ranges)
         /\ \E i \in 1..Len(tx.accountKeys) :
              /\ i # idx
              /\ tx.accountKeys[i] = ev.recipientAddress
              /\ Abs((tx.postBalances[i] - tx.preBalances[i]) - ev.outgoingAmount)
                   < LAMPORTS_PER_SOL \div 10000

\* Invocation c did what it does alone with the RPC responses it was given: a finished
\* one called getParsedTransaction for its signature, its events are those of a run
\* alone on the transaction it fetched, and when every fetch it made was answered with
\* the transaction it has one event for each qualifying wallet and none for another.
AsIfAlone(c) ==
  /\ c.pc = "done" => c.fetchTrace.fetch # "notcalled"
  /\ c.pc # "idle" => c.signature \in DOMAIN chain
  /\ c.fetchTrace.fetch = "ok" => c.trigTx = chain[c.signature]
  /\ \A e \in 1..Len(c.emitted) : EventOfAlone(c.emitted[e], c.signature, c.trigTx)
  /\ ( /\ c.pc = "done"
       /\ c.fetchTrace.fetch = "ok"
       /\ \A w \in 1..Len(cexWallets) : c.fetchTrace.refetch[w] \in {"ok", "notcalled"} )
     => \A w \in 1..Len(cexWallets) :
          Cardinality({e \in 1..Len(c.emitted) :
                         c.emitted[e].cexAddress = cexWallets[w].address})
            = IF QualifiesIn(c.trigTx, w) THEN 1 ELSE 0

\* How many times value v occurs in sequence seq.
Occurrences(seq, v) == Cardinality({i \in 1..Len(seq) : seq[i] = v})

\* C20: with two notifications in flight and their RPC completions interleaved in any
\* order, each invocation of processLogEvent does what it does alone with the same RPC
\* responses, and the events handed to handleDetection are those of the two
\* invocations together, each as often as it was emitted: none suppressed, merged or
\* altered, also when both notifications carry the same signature.
C20_NoInterference ==
  /\ \A c \in Invocations : AsIfAlone(c)
  /\ parked # NoContext =>
       /\ Len(events) = Len(emitted) + Len(parked.emitted)
       /\ \A i \in 1..Len(events) :
            Occurrences(events, events[i])
              = Occurrences(emitted, events[i]) + Occurrences(parked.emitted, events[i])

\* Two deliveries of the same signature were both processed to the end, their RPC
\* completions interleaved, and each emitted the same two events.
C20_Witness ==
  /\ parked # NoContext
  /\ pc = "done"
  /\ parked.pc = "done"
  /\ signature = parked.signature
  /\ Len(emitted) = 2
  /\ Len(parked.emitted) = 2
  /\ \E i \in 1..4 : \E j \in 1..4 : \E k \in 1..4 :
       /\ i < j
       /\ j < k
       /\ events[i].cexAddress = events[k].cexAddress
       /\ events[j].cexAddress # events[i].cexAddress

\* In tx, account i gained balance and j is the first other account, in account-list
\* order, whose balance decrease is within the tolerance of what i gained: the rule
\* of processLogEvent's recipient scan, applied to the source.
FirstOutflowWithinTolerance(tx, i, j) ==
  /\ i # j
  /\ tx.postBalances[i] - tx.preBalances[i] > 0
  /\ WithinTolerance(tx.preBalances[j] - tx.postBalances[j],
                     tx.postBalances[i] - tx.preBalances[i])
  /\ \A k \in 1..(j - 1) :
       k # i => ~WithinTolerance(tx.preBalances[k] - tx.postBalances[k],
                                 tx.postBalances[i] - tx.preBalances[i])

\* C21: whenever, in the previous transaction performScrutinyCheck fetched, the
\* recipient's balance increased, the source it reports is the first other account
\* whose balance decrease is within 1/10,000 SOL of that increase, and the result is
\* LOOP_DETECTED when that account is cexAddress.
C21_SourceWithinTolerance ==
  ClassifiedPrevious =>
    \A i, j \in 1..Len(Inspected.accountKeys) :
      ( /\ Inspected.accountKeys[i] = scrArgs.recipientAddress
        /\ FirstOutflowWithinTolerance(Inspected, i, j) ) =>
          /\ scrResult.previousInflowSource = Inspected.accountKeys[j]
          /\ Inspected.accountKeys[j] = scrArgs.cexAddress =>
               scrResult.condition = "LOOP_DETECTED"

\* Transaction tx shows no balance increase of address: the address is not in its
\* account list, or its balance is unchanged or lower.
NoIncreaseFor(tx, address) ==
  \A i \in 1..Len(tx.accountKeys) :
    tx.accountKeys[i] = address => tx.postBalances[i] - tx.preBalances[i] <= 0

\* C22: whenever the previous transaction performScrutinyCheck fetched has its meta
\* and shows no balance increase of the recipient, the result is FIRST_TIME_ACTIVITY
\* with alertTriggered, previousInflowSignature is the signature that was inspected,
\* and no source is reported.
C22_NoInflowIsFirstTime ==
  (ClassifiedPrevious /\ NoIncreaseFor(Inspected, scrArgs.recipientAddress)) =>
    /\ scrResult.condition = "FIRST_TIME_ACTIVITY"
    /\ scrResult.alertTriggered = TRUE
    /\ scrResult.previousInflowSignature = prevSig
    /\ prevSig \in {PriorSig, signature}
    /\ scrResult.previousInflowSource = Undefined

\* The recipient is in the inspected transaction with a lower balance, and the result
\* is FIRST_TIME_ACTIVITY for the older signature.
C22_Witness ==
  /\ ClassifiedPrevious
  /\ \E i \in 1..Len(Inspected.accountKeys) :
       /\ Inspected.accountKeys[i] = scrArgs.recipientAddress
       /\ Inspected.postBalances[i] - Inspected.preBalances[i] < 0
  /\ scrResult = ResultNoInflow(PriorSig)

\* C23: on an open transport whose logsSubscribe request the server has answered, the
\* recorded subscriptionId is the identifier of that answer: not the identifier of an
\* earlier transport, and not the payload of another frame.
C23_SubscriptionIdIsCurrent ==
  (ws = "OPEN" /\ serverSubId # NullId) => subscriptionId = serverSubId

\* C24: in a run where close() is never called and no maxReconnectAttempts consecutive
\* connection attempts fail, whenever a transport has closed, a new transport is
\* eventually open with its logsSubscribe request sent by the 'open' handler.
C24_ReconnectsEventually ==
  ([]~isManualClose /\ [](failedAttempts < maxReconnectAttempts))
    => [](ws = "CLOSED" => <>(ws = "OPEN" /\ effects = {"subscribeSent"}))

\* C25: when processLogEvent is done with a notification whose transaction was found,
\* every configured wallet in the transaction's account list was evaluated (its own
\* RPC call was made), whatever happened to the other wallets, and every such wallet
\* that qualifies and whose own call succeeded has its DetectionEvent.
C25_WalletsIndependent ==
  (pc = "done" /\ ~txAnalysis.isNull) =>
    \A w \in 1..Len(cexWallets) :
      IndexOf(txAnalysis.accountKeys, cexWallets[w].address) # 0 =>
        /\ fetchTrace.refetch[w] # "notcalled"
        /\ (fetchTrace.fetch = "ok" /\ fetchTrace.refetch[w] = "ok" /\ Qualifies(w))
             => EmittedFor(w) # {}

\* The transport this.ws references is connecting or open.
TransportLive == ws \in {"CONNECTING", "OPEN"}

\* C26: at most one reconnect timer is pending, and none while a transport is
\* connecting or open; a transport is created only when none is connecting or open;
\* and a step arms at most one timer, only as a connecting or open transport closes.
C26_OneTimerOneTransport ==
  /\ [](Len(timers) <= 1 /\ (timers # <<>> => ~TransportLive))
  /\ [][ /\ "newTransport" \in effects' => (~TransportLive /\ ws' = "CONNECTING")
         /\ Len(timers') > Len(timers) =>
              /\ Len(timers') = Len(timers) + 1
              /\ TransportLive
              /\ ws' = "CLOSED" ]_vars

\* A reconnect attempt failed and its transport's close armed the next timer: the
\* second reconnect in a row is pending, and no transport is connecting or open.
C26_Witness ==
  /\ Len(timers) = 1
  /\ reconnectAttempts = 2
  /\ failedAttempts = 1
  /\ ws = "CLOSED"
  /\ effects = {"scheduled"}

\* ScrutinyResult r, returned for paying wallet cexAddress, is consistent: the alert
\* is raised exactly for LOOP_DETECTED and FIRST_TIME_ACTIVITY, not raised exactly for
\* NONE, and a LOOP_DETECTED names the paying wallet as the source.
ConsistentResult(r, cexAddress) ==
  /\ r.condition \in {"LOOP_DETECTED", "FIRST_TIME_ACTIVITY", "NONE"}
  /\ r.alertTriggered = TRUE <=> r.condition \in {"LOOP_DETECTED", "FIRST_TIME_ACTIVITY"}
  /\ r.alertTriggered = FALSE <=> r.condition = "NONE"
  /\ r.condition = "LOOP_DETECTED" => r.previousInflowSource = cexAddress

\* C27: every ScrutinyResult performScrutinyCheck has returned, on the error paths
\* too, and every one handed on in a DetectionEvent, is consistent for its paying
\* wallet.
C27_ResultConsistent ==
  /\ scrPc = "returned" => ConsistentResult(scrResult, scrArgs.cexAddress)
  /\ \A e \in 1..Len(events) :
       ConsistentResult(events[e].scrutinyResult, events[e].cexAddress)

\* In the pipeline, performScrutinyCheck returned LOOP_DETECTED for the paying wallet
\* after an earlier event of the same notification carried an error-path result.
C27_Witness ==
  /\ pc = "scrutiny"
  /\ scrPc = "returned"
  /\ scrResult.condition = "LOOP_DETECTED"
  /\ scrResult.alertTriggered = TRUE
  /\ scrResult.previousInflowSource = cexWallets[wi].address
  /\ \E e \in 1..Len(events) : events[e].scrutinyResult = ResultError

====
